---- MODULE Spec2Model ----
(***************************************************************************)
(* Model of the CAD file copy manager (file_copy_manager.py).              *)
(*                                                                         *)
(* Text is a sequence of one-character strings, so that formatting         *)
(* (f"{name}.{ext}", f"{i}_{name}"), upper-casing, substring matching and  *)
(* number parsing are computed character by character.  A path is a        *)
(* sequence of names; the filesystem is the listing of every directory     *)
(* (children) and the set of regular files (files).                        *)
(***************************************************************************)
EXTENDS Integers, Sequences, FiniteSets, TLC

VARIABLES
    source_paths,      \* self.source_paths: ordered list of root paths
    destination_base,  \* self.destination_base
    children,          \* filesystem: directory path -> listing of its subdirectory names
    files,             \* filesystem: set of regular files [dir, name]
    stats,             \* self.stats
    pc,                \* position of the single thread of control
    product_name,      \* find_source_files: argument
    source_idx,        \* find_source_files: position of the loop over source_paths
    found_files,       \* find_source_files: found_files
    dirs_to_search,    \* find_source_files: queue of (directory, depth)
    searched_count,    \* find_source_files: searched_count
    dequeued,          \* number of directories the breadth-first pass dequeued in the current call
    examined,          \* directories whose content the breadth-first pass checked, in order
    listings,          \* number of directory listings (iterdir / glob) of the current call
    csv_files,         \* run: the CSV files still to process, each given by its material
    material,          \* process_csv_file: material of the current CSV file
    rows_read,         \* number of rows read so far in the run
    row,               \* process_row: the row being processed
    quantity,          \* process_row: quantity
    dest_folder,       \* process_row: dest_folder
    file_idx,          \* copy_files_based_on_quantity: position in source_files
    ordinal,           \* copy_files_based_on_quantity: i of the loop over range(1, quantity + 1)
    copied_count,      \* copy_files_based_on_quantity: copied_count
    before,            \* stats and filesystem as they were when the current row was read
    outcome,           \* how process_row ended for the last row
    ended,             \* how many rows that passed validation ended in each way
    case_sensitive,    \* filesystem: names that differ in case only are different names
    unlistable,        \* filesystem: directories whose listing (iterdir, glob) raises
    inaccessible,      \* filesystem: directories on which every operation raises
    csv_rows,          \* the rows the CSV files of the run may hold
    previous           \* the earlier call of a function called twice: what it returned

searchVars == <<product_name, source_idx, found_files, dirs_to_search,
                searched_count, dequeued, examined, listings>>
fsVars == <<children, files>>
configVars == <<source_paths, destination_base>>
envVars == <<case_sensitive, unlistable, inaccessible, csv_rows, previous>>
rowVars == <<row, quantity, dest_folder, file_idx, ordinal, copied_count, before,
            outcome, ended>>
runVars == <<csv_files, material, rows_read>>
vars == <<configVars, envVars, fsVars, stats, pc, searchVars, runVars, rowVars>>

----------------------------------------------------------------------------
(* Bounds of the model *)

MaxChain == 8     \* length of the chain of nested directories beneath root A
MaxFiles == 2     \* number of files in the initial source trees
MaxRows == 2      \* number of rows read in one run
MaxQuantity == 3  \* largest quantity written in a row
MaxThickness == 3 \* length of the thickness strings drawn from ThicknessChars

----------------------------------------------------------------------------
(* Text *)

ToUpper ==
    [c \in {"a","b","c","d","e","f","g","h","i","j","k","l","m",
            "n","o","p","q","r","s","t","u","v","w","x","y","z"} |->
        CASE c = "a" -> "A" [] c = "b" -> "B" [] c = "c" -> "C" [] c = "d" -> "D"
          [] c = "e" -> "E" [] c = "f" -> "F" [] c = "g" -> "G" [] c = "h" -> "H"
          [] c = "i" -> "I" [] c = "j" -> "J" [] c = "k" -> "K" [] c = "l" -> "L"
          [] c = "m" -> "M" [] c = "n" -> "N" [] c = "o" -> "O" [] c = "p" -> "P"
          [] c = "q" -> "Q" [] c = "r" -> "R" [] c = "s" -> "S" [] c = "t" -> "T"
          [] c = "u" -> "U" [] c = "v" -> "V" [] c = "w" -> "W" [] c = "x" -> "X"
          [] c = "y" -> "Y" [] c = "z" -> "Z"]

\* str.upper()
Upper(s) == [i \in 1..Len(s) |-> IF s[i] \in DOMAIN ToUpper THEN ToUpper[s[i]] ELSE s[i]]

EndsWith(s, suffix) ==
    /\ Len(suffix) <= Len(s)
    /\ SubSeq(s, Len(s) - Len(suffix) + 1, Len(s)) = suffix

Contains(s, sub) ==
    \E i \in 0..(Len(s) - Len(sub)) : SubSeq(s, i + 1, i + Len(sub)) = sub

\* f"{product_name}.{ext}"
ExactName(product, ext) == product \o <<".">> \o ext

\* the form in which the filesystem compares names: as written, or without
\* regard to case (the source paths of main are Windows shares)
Fold(s) == IF case_sensitive THEN s ELSE Upper(s)

\* fnmatch of a file name against f"*{product_name}*.{ext}"
GlobMatch(name, product, ext) ==
    LET suffix == <<".">> \o ext IN
    /\ EndsWith(Fold(name), Fold(suffix))
    /\ Contains(SubSeq(Fold(name), 1, Len(name) - Len(suffix)), Fold(product))

extensions ==
    << <<"d","w","g">>, <<"d","x","f">>, <<"s","t","e","p">>, <<"s","t","p">>,
       <<"i","g","e","s">>, <<"i","g","s">>, <<"s","a","t">>, <<"3","d","m">>,
       <<"c","a","t","p","a","r","t">>, <<"c","a","t","p","r","o","d","u","c","t">>,
       <<"p","r","t">>, <<"a","s","m">> >>

max_depth == 7
max_dirs == 500
first_level_limit == 10

----------------------------------------------------------------------------
(* Filesystem primitives *)

\* Path / name
Join(dir, name) == Append(dir, name)

FilePath(dir, name) == [dir |-> dir, name |-> name]

\* dir is root or lies beneath it
Under(root, dir) == Len(root) <= Len(dir) /\ SubSeq(dir, 1, Len(root)) = root

\* two names denote the same entry of a directory
SameName(a, b) == Fold(a) = Fold(b)

\* Path.exists() and Path.is_file()
IsFile(path) == \E f \in files : f.dir = path.dir /\ SameName(f.name, path.name)

\* a test of a candidate that never raises
StatNeverRaises(dir) == FALSE

\* a failure that is not confined to its directory: one inaccessible directory
\* makes the test of every candidate raise
StatRaisesEverywhere(dir) == inaccessible # {}

\* exists() / is_file() of an entry of dir raises
StatRaises(dir) == dir \in inaccessible

\* dir.iterdir() / dir.glob(pattern) raises
ListRaises(dir) == dir \in inaccessible \cup unlistable

\* [d for d in dir.iterdir() if d.is_dir()]
SubDirs(dir) ==
    IF dir \in DOMAIN children
    THEN [i \in 1..Len(children[dir]) |-> Join(dir, children[dir][i])]
    ELSE <<>>

\* the subdirectories the breadth-first pass enqueues: when the listing raises
\* the exception is logged and the loop goes on with the next queue entry
Enqueued(dir) == IF ListRaises(dir) THEN <<>> ELSE SubDirs(dir)

\* the names of the regular files of a directory
FileNamesIn(dir) == {f.name : f \in {g \in files : g.dir = dir}}

\* the orders in which a listing may enumerate a set of names
Orderings(S) ==
    {o \in [1..Cardinality(S) -> S] : \A i, j \in DOMAIN o : i # j => o[i] # o[j]}

RECURSIVE Concat(_, _)
\* the concatenation of the sequences seqs[k], seqs[k+1], ...
Concat(seqs, k) == IF k > Len(seqs) THEN <<>> ELSE seqs[k] \o Concat(seqs, k + 1)

\* found, followed by the entries of seq that are neither in found nor earlier in seq:
\* "if ... match not in found_files: found_files.append(match)"
AppendNew(found, seq) ==
    LET keep == {i \in DOMAIN seq :
                    /\ \A j \in DOMAIN found : found[j] # seq[i]
                    /\ \A j \in 1..(i - 1) : seq[j] # seq[i]}
        nth(n) == CHOOSE i \in keep : Cardinality({j \in keep : j <= i}) = n
    IN found \o [n \in 1..Cardinality(keep) |-> seq[nth(n)]]

----------------------------------------------------------------------------
(* find_source_files *)

\* the paths the exact passes test in a directory, in the order of the loop
\* "for ext in extensions": the lower-case extension, then the upper-case one
ExactCandidates(dir, product) ==
    [k \in 1..(2 * Len(extensions)) |->
        IF k % 2 = 1
        THEN FilePath(dir, ExactName(product, extensions[(k + 1) \div 2]))
        ELSE FilePath(dir, ExactName(product, Upper(extensions[k \div 2])))]

\* the exact pass over one directory: every candidate that is a file is
\* appended; a test that raises is logged and the loop goes on with the next
\* extension
ExactMatches(dir, product, found) ==
    IF StatRaises(dir) THEN found
    ELSE found \o SelectSeq(ExactCandidates(dir, product), IsFile)

\* the extensions a partial pass globs for: lower and upper case in the root
\* directory, lower case only in a first-level subdirectory
GlobExtensions(both) ==
    IF both
    THEN [k \in 1..(2 * Len(extensions)) |->
            IF k % 2 = 1 THEN extensions[(k + 1) \div 2] ELSE Upper(extensions[k \div 2])]
    ELSE extensions

\* the partial pass over one directory whose files are enumerated in the given
\* order; nothing is matched when the listing raises
GlobMatches(order, dir, product, found, both) ==
    IF ListRaises(dir) THEN found ELSE
    LET exts == GlobExtensions(both)
        hits == [k \in 1..Len(exts) |->
                    [i \in 1..Len(SelectSeq(order, LAMBDA n : GlobMatch(n, product, exts[k]))) |->
                        FilePath(dir, SelectSeq(order, LAMBDA n : GlobMatch(n, product, exts[k]))[i])]]
    IN AppendNew(found, Concat(hits, 1))

\* a root-level exact pass that goes on to the subtree search unless it found
\* two files
RootPassNeedsTwo(found) == Len(found) > 1

\* a root-level exact pass that always falls through to the subtree search
RootPassFallsThrough(found) == FALSE

\* the root-level exact pass found something: go on with the next source path
RootPassContinues(found) == found # <<>>

\* a loop without the cap on the number of directories
BfsLoopUncapped(queue, count) == queue # <<>>

\* while dirs_to_search and searched_count < max_dirs
BfsLoopRuns(queue, count) == queue # <<>> /\ count < max_dirs

\* if current_depth >= max_depth: continue
DepthSkipped(depth) == depth >= max_depth

\* a descent that stops one level earlier
MayDescendShallow(depth) == depth < max_depth - 2

\* if current_depth < max_depth - 1
MayDescend(depth) == depth < max_depth - 1

NoRow == [product |-> <<>>, thickness |-> <<>>, quantity |-> <<>>]
NoSnapshot == [stats |-> <<>>, children |-> <<>>, files |-> {}]
NoPrevious == [calls |-> 0, result |-> {}, emptied |-> FALSE]

----------------------------------------------------------------------------
(* Text of a row: stripping, number parsing, number formatting *)

Digits == {"0", "1", "2", "3", "4", "5", "6", "7", "8", "9"}

DigitValue ==
    [c \in Digits |->
        CASE c = "0" -> 0 [] c = "1" -> 1 [] c = "2" -> 2 [] c = "3" -> 3 [] c = "4" -> 4
          [] c = "5" -> 5 [] c = "6" -> 6 [] c = "7" -> 7 [] c = "8" -> 8 [] c = "9" -> 9]

DigitChar(d) == CHOOSE c \in Digits : DigitValue[c] = d

Front(s) == SubSeq(s, 1, Len(s) - 1)
Last(s) == s[Len(s)]
MinOf(S) == CHOOSE i \in S : \A j \in S : i <= j
MaxOf(S) == CHOOSE i \in S : \A j \in S : i >= j

\* str.strip()
Strip(s) ==
    LET solid == {i \in DOMAIN s : s[i] # " "}
    IN IF solid = {} THEN <<>> ELSE SubSeq(s, MinOf(solid), MaxOf(solid))

AllDigits(s) == \A i \in DOMAIN s : s[i] \in Digits

RECURSIVE Num(_)
\* the value of a string of decimal digits
Num(ds) == IF ds = <<>> THEN 0 ELSE 10 * Num(Front(ds)) + DigitValue[Last(ds)]

RECURSIVE Pow10(_)
Pow10(n) == IF n = 0 THEN 1 ELSE 10 * Pow10(n - 1)

RECURSIVE IntToStr(_)
\* str(i) of a non-negative integer, as in f"{i}_..."
IntToStr(i) ==
    IF i < 10 THEN <<DigitChar(i)>> ELSE Append(IntToStr(i \div 10), DigitChar(i % 10))

\* the number of decimal digits of the largest finite float (1.797...e308)
float_max_digits == 309

\* the position of the first character of s that is in chars, 0 if none
FirstOf(s, chars) ==
    IF \A i \in DOMAIN s : s[i] \notin chars THEN 0
    ELSE MinOf({i \in DOMAIN s : s[i] \in chars})

\* the parts of s before and after position k; all of s and nothing if k = 0
Before(s, k) == IF k = 0 THEN s ELSE SubSeq(s, 1, k - 1)
After(s, k) == IF k = 0 THEN <<>> ELSE SubSeq(s, k + 1, Len(s))

\* s begins with a sign; s without it
Signed(s) == s # <<>> /\ s[1] \in {"+", "-"}
Unsigned(s) == IF Signed(s) THEN Tail(s) ELSE s

\* the decimal exponent written by the digits edigits with sign eneg
Exponent(eneg, edigits) == IF eneg THEN 0 - Num(edigits) ELSE Num(edigits)

\* float() of a well-formed decimal: out of the range of a float it is inf
FloatOf(neg, digits, exp10) ==
    IF /\ FirstOf(digits, Digits \ {"0"}) # 0
       /\ Len(digits) - FirstOf(digits, Digits \ {"0"}) + 1 + exp10 > float_max_digits
    THEN [kind |-> "inf"]
    ELSE [kind |-> "finite", neg |-> neg, digits |-> digits, exp10 |-> exp10]

\* float() of integer part, fraction part and exponent (hasexp: an "e" is there)
ParseParts(neg, ipart, fpart, hasexp, expo) ==
    IF /\ AllDigits(ipart) /\ AllDigits(fpart)
       /\ Len(ipart) + Len(fpart) >= 1
       /\ hasexp => (Unsigned(expo) # <<>> /\ AllDigits(Unsigned(expo)))
    THEN FloatOf(neg, ipart \o fpart,
                 Exponent(expo # <<>> /\ expo[1] = "-", Unsigned(expo)) - Len(fpart))
    ELSE [kind |-> "invalid"]

\* float() of mantissa and exponent
ParseMantissa(neg, mant, hasexp, expo) ==
    ParseParts(neg, Before(mant, FirstOf(mant, {"."})), After(mant, FirstOf(mant, {"."})),
               hasexp, expo)

\* float() of the text after the sign
ParseBody(neg, body) ==
    IF Upper(body) \in {<<"I","N","F">>, <<"I","N","F","I","N","I","T","Y">>}
    THEN [kind |-> "inf"]
    ELSE IF Upper(body) = <<"N","A","N">> THEN [kind |-> "nan"]
    ELSE ParseMantissa(neg, Before(body, FirstOf(body, {"e", "E"})),
                       FirstOf(body, {"e", "E"}) # 0,
                       After(body, FirstOf(body, {"e", "E"})))

\* float(s): "inf", "nan", "invalid" (ValueError) or a finite decimal
\* (-1)^neg * digits * 10^exp10
ParseFloat(s) ==
    ParseBody(Strip(s) # <<>> /\ Strip(s)[1] = "-", Unsigned(Strip(s)))

\* int(x) of a finite float: the fractional part is dropped
TruncFloat(x) ==
    LET magnitude == IF x.exp10 >= 0 THEN Num(x.digits) * Pow10(x.exp10)
                     ELSE IF 0 - x.exp10 > Len(x.digits) THEN 0
                     ELSE Num(x.digits) \div Pow10(0 - x.exp10)
    IN IF x.neg THEN 0 - magnitude ELSE magnitude

\* int(x) of the float x: nan raises ValueError, inf raises OverflowError
IntOfFloat(x) ==
    CASE x.kind = "invalid" -> [kind |-> "ValueError", value |-> 0]
      [] x.kind = "nan" -> [kind |-> "ValueError", value |-> 0]
      [] x.kind = "inf" -> [kind |-> "OverflowError", value |-> 0]
      [] x.kind = "finite" -> [kind |-> "ok", value |-> TruncFloat(x)]

\* quantity = int(float(quantity_str)) if quantity_str else 0
ParseQuantity(quantity_str) ==
    IF quantity_str = <<>> THEN [kind |-> "ok", value |-> 0]
    ELSE IntOfFloat(ParseFloat(quantity_str))

----------------------------------------------------------------------------
(* create_destination_folder *)

unknown == <<"u","n","k","n","o","w","n">>

\* ''.join(c for c in str(thickness) if c.isdigit() or c == '.'), "unknown" if empty
CleanThickness(thickness) ==
    LET kept == SelectSeq(thickness, LAMBDA c : c \in Digits \/ c = ".")
    IN IF kept = <<>> THEN unknown ELSE kept

\* self.destination_base / material / clean_thickness; a "." component is dropped
DestFolder(base, mat, thickness) ==
    LET clean == CleanThickness(thickness)
    IN IF clean = <<".">> THEN Append(base, mat) ELSE Append(Append(base, mat), clean)

RECURSIVE Resolve(_)
\* the directory a path denotes: every ".." component leads to the parent
Resolve(path) ==
    IF path = <<>> THEN <<>>
    ELSE LET parent == Resolve(Front(path))
         IN IF Last(path) = <<".", ".">>
            THEN (IF parent = <<>> THEN <<>> ELSE Front(parent))
            ELSE Append(parent, Last(path))

\* os.mkdir of one directory that may exist already
AddDir(ch, dir) ==
    IF dir \in DOMAIN ch \/ dir = <<>> THEN ch
    ELSE LET listed == IF Front(dir) \in DOMAIN ch
                       THEN [ch EXCEPT ![Front(dir)] = Append(@, Last(dir))]
                       ELSE ch
         IN listed @@ (dir :> <<>>)

RECURSIVE MkdirFrom(_, _, _)
\* path.mkdir(parents=True, exist_ok=True): the prefixes of path from length k on
MkdirFrom(ch, path, k) ==
    IF k > Len(path) THEN ch
    ELSE MkdirFrom(AddDir(ch, Resolve(SubSeq(path, 1, k))), path, k + 1)

Mkdir(ch, path) == MkdirFrom(ch, path, 1)

----------------------------------------------------------------------------
(* copy_files_based_on_quantity *)

\* the name of copy i of a source file
DestName(name, qty, i) == IF qty = 1 THEN name ELSE IntToStr(i) \o <<"_">> \o name

\* the file shutil.copy2 writes for copy i of a source file
DestFile(folder, name, qty, i) == FilePath(Resolve(folder), DestName(name, qty, i))

\* the position (file, ordinal) reached after a copy that succeeded
AfterCopy(idx, i, qty) ==
    IF qty = 1 \/ i = qty THEN [file_idx |-> idx + 1, ordinal |-> 1]
    ELSE [file_idx |-> idx, ordinal |-> i + 1]

\* the position reached after a copy that raised: the except clause encloses
\* the loop over the ordinals, so the next source file comes next
AfterFailedCopy(idx, i, qty) == [file_idx |-> idx + 1, ordinal |-> 1]

----------------------------------------------------------------------------
(* The source trees *)

NameA == <<"A">>
NameB == <<"B">>
NameC == <<"c">>
NameS == <<"s">>
RootA == <<NameA>>
RootB == <<NameB>>

\* the directory k levels beneath root along the chain root/c/c/...
Chain(root, k) == root \o [i \in 1..k |-> NameC]

\* root A holds the chain c/c/... and the directory s, root B the directory c
SourceDirs ==
    {Chain(RootA, k) : k \in 0..MaxChain} \cup {Join(RootA, NameS)}
        \cup {RootB, Join(RootB, NameC)}

SourceChildren ==
    [d \in SourceDirs |->
        IF d = RootA THEN <<NameC, NameS>>
        ELSE IF d = RootB THEN <<NameC>>
        ELSE IF \E k \in 1..(MaxChain - 1) : d = Chain(RootA, k) THEN <<NameC>>
        ELSE <<>>]

ProductP == <<"P">>

\* file names: exact lower and upper case, two names containing the identifier,
\* an extension that is not a CAD extension
SourceNames ==
    { <<"P",".","d","x","f">>, <<"P",".","D","X","F">>,
      <<"x","P","y",".","d","x","f">>, <<"P","2",".","d","x","f">>,
      <<"P",".","t","x","t">> }

SourcePlaces == {FilePath(d, n) : d \in SourceDirs, n \in SourceNames}

SourceOrders == { <<RootA>>, <<RootA, RootB>>, <<RootB, RootA>> }

DestBase == << <<"D">> >>

RECURSIVE SubsetsUpTo(_, _)
\* the subsets of S of at most n elements
SubsetsUpTo(S, n) ==
    IF n = 0 THEN {{}}
    ELSE LET smaller == SubsetsUpTo(S, n - 1)
         IN smaller \cup {T \cup {x} : T \in smaller, x \in S}

----------------------------------------------------------------------------
(* The inputs of a run *)

MaterialS == <<"S">>
MaterialT == <<"T">>

CsvLists == { <<>>, <<MaterialS, MaterialT>> }

ProductZ == <<"Z">>

RowProducts == { <<>>, <<" ">>, ProductP, ProductZ }

RowThicknesses == { <<>>, <<"2","m","m">> }

\* the quantities 0, 1 and MaxQuantity, fractions, negative numbers, text, and
\* numbers that are not finite
RowQuantities ==
    {IntToStr(n) : n \in {0, 1, MaxQuantity}} \cup
    { IntToStr(MaxQuantity) \o <<".","0">>, IntToStr(MaxQuantity) \o <<".","9">> } \cup
    { <<>>, <<"0",".","9">>, <<"-","0",".","5">>,
      <<"-","1">>, <<" ","1"," ">>, <<"1","e","0">>, <<"a","b","c">>, <<"1",".","2",".","3">>,
      <<"n","a","n">>, <<"i","n","f">>, <<"-","I","n","f">>, <<"1","e","4","0","0">> }

Rows == [product : RowProducts, thickness : RowThicknesses, quantity : RowQuantities]

\* int(float(...)) of every quantity text of a row, parsed once
ParsedQuantities == [q \in RowQuantities |-> ParseQuantity(Strip(q))]

\* quantity_str = str(row.get('Quantity', '0')).strip() and its parse
RowQuantity(r) == ParsedQuantities[r.quantity]

\* the source trees of a run: one root-level file; lower and upper case
\* extension at root level; the same name in two directories
RunTrees ==
    { {FilePath(RootA, <<"P",".","d","x","f">>)},
      {FilePath(RootA, <<"P",".","d","x","f">>), FilePath(RootA, <<"P",".","D","X","F">>)},
      {FilePath(Join(RootA, NameC), <<"P",".","d","x","f">>),
       FilePath(Join(RootA, NameS), <<"P",".","d","x","f">>)} }

----------------------------------------------------------------------------
(* find_source_files: the steps of a call *)

\* the call: found_files = [], the loop over the source paths starts
FindCall ==
    /\ pc = "find_call"
    /\ found_files' = <<>>
    /\ source_idx' = 1
    /\ dirs_to_search' = <<>>
    /\ searched_count' = 0
    /\ dequeued' = 0
    /\ examined' = <<>>
    /\ listings' = 0
    /\ pc' = IF Len(source_paths) = 0 THEN "find_return" ELSE "find_root"
    /\ UNCHANGED <<runVars, rowVars, configVars, envVars, fsVars, stats, product_name>>

\* the loop over source_paths moves on to the next source path or ends
NextSource == IF source_idx + 1 > Len(source_paths) THEN "find_return" ELSE "find_root"

\* Strategy 1 for the current source path
RootExactPass ==
    /\ pc = "find_root"
    /\ LET root == source_paths[source_idx]
           ff == ExactMatches(root, product_name, found_files)
       IN /\ found_files' = ff
          /\ IF RootPassContinues(ff)
             THEN /\ source_idx' = source_idx + 1
                  /\ pc' = NextSource
                  /\ UNCHANGED <<dirs_to_search, searched_count>>
             ELSE /\ dirs_to_search' = <<[dir |-> root, depth |-> 0]>>
                  /\ searched_count' = 0
                  /\ pc' = "find_bfs"
                  /\ UNCHANGED source_idx
    /\ UNCHANGED <<runVars, rowVars, configVars, envVars, fsVars, stats, product_name, dequeued, examined, listings>>

\* Strategy 2: one iteration of the while loop
BfsStep ==
    /\ pc = "find_bfs"
    /\ BfsLoopRuns(dirs_to_search, searched_count)
    /\ LET cur == Head(dirs_to_search)
           rest == Tail(dirs_to_search)
       IN /\ searched_count' = searched_count + 1
          /\ dequeued' = dequeued + 1
          /\ IF DepthSkipped(cur.depth)
             THEN /\ dirs_to_search' = rest
                  /\ UNCHANGED <<found_files, examined, listings>>
             ELSE /\ found_files' = ExactMatches(cur.dir, product_name, found_files)
                  /\ examined' = Append(examined, cur.dir)
                  /\ IF MayDescend(cur.depth)
                     THEN LET subdirs == Enqueued(cur.dir)
                          IN /\ dirs_to_search' = rest \o
                                    [i \in 1..Len(subdirs) |->
                                        [dir |-> subdirs[i], depth |-> cur.depth + 1]]
                             /\ listings' = listings + 1
                     ELSE /\ dirs_to_search' = rest
                          /\ UNCHANGED listings
    /\ UNCHANGED <<runVars, rowVars, configVars, envVars, fsVars, stats, pc, product_name, source_idx>>

\* Strategy 2: the while loop ends
BfsEnd ==
    /\ pc = "find_bfs"
    /\ ~BfsLoopRuns(dirs_to_search, searched_count)
    /\ pc' = "find_partial"
    /\ UNCHANGED <<runVars, rowVars, configVars, envVars, fsVars, stats, searchVars>>

\* the loop over first_level_dirs, left at the first subdirectory with a match;
\* orders gives the enumeration order of the files of every directory
PartialSubdirs(subdirs, product, orders, found) ==
    LET hits == [i \in 1..Len(subdirs) |->
                    GlobMatches(orders[subdirs[i]], subdirs[i], product, found, FALSE)]
        nonempty == {i \in DOMAIN hits : hits[i] # <<>>}
    IN IF nonempty = {} THEN found
       ELSE hits[CHOOSE i \in nonempty : \A j \in nonempty : i <= j]

\* Strategy 3 for the current source path, then the end of the loop body
PartialPass ==
    /\ pc = "find_partial"
    /\ LET root == source_paths[source_idx]
           subdirs == SubDirs(root)
           first_level_dirs == SubSeq(subdirs, 1,
               IF Len(subdirs) < first_level_limit THEN Len(subdirs) ELSE first_level_limit)
           scanned == {root} \cup {first_level_dirs[i] : i \in DOMAIN first_level_dirs}
       IN \E orders \in [scanned -> UNION {Orderings(FileNamesIn(d)) : d \in scanned}] :
            /\ \A d \in scanned : orders[d] \in Orderings(FileNamesIn(d))
            /\ IF found_files = <<>> /\ ListRaises(root)
               THEN \* the glob of the root raises: Strategy 3 is left
                    /\ listings' = listings + 1
                    /\ UNCHANGED found_files
               ELSE IF found_files = <<>>
               THEN LET f1 == GlobMatches(orders[root], root, product_name, found_files, TRUE)
                    IN IF f1 = <<>>
                       THEN /\ found_files' =
                                 PartialSubdirs(first_level_dirs, product_name, orders, f1)
                            /\ listings' = listings + 2 * Len(extensions) + 1
                                 + Len(extensions) * Len(first_level_dirs)
                       ELSE /\ found_files' = f1
                            /\ listings' = listings + 2 * Len(extensions)
               ELSE UNCHANGED <<found_files, listings>>
    /\ IF found_files' # <<>>
       THEN pc' = "find_return" /\ UNCHANGED source_idx
       ELSE pc' = NextSource /\ source_idx' = source_idx + 1
    /\ UNCHANGED <<runVars, rowVars, configVars, envVars, fsVars, stats, product_name, dirs_to_search,
                   searched_count, dequeued, examined>>

\* return found_files
FindReturn ==
    /\ pc = "find_return"
    /\ pc' = "find_returned"
    /\ UNCHANGED <<runVars, rowVars, configVars, envVars, fsVars, stats, searchVars>>

NextSearch ==
    \/ FindCall
    \/ RootExactPass
    \/ BfsStep
    \/ BfsEnd
    \/ PartialPass
    \/ FindReturn

----------------------------------------------------------------------------
(* find_source_files called twice for one identifier *)

\* the directory listings that differ from ch in the order in which one
\* directory enumerates its entries
Relisted(ch) ==
    UNION {{[ch EXCEPT ![d] = p] : p \in Orderings({ch[d][i] : i \in DOMAIN ch[d]})} :
              d \in DOMAIN ch}

\* the directories whose operations raise
Failing == unlistable \cup inaccessible

\* dir is a failing directory or lies beneath one
InFailing(dir) ==
    \E d \in Failing : Len(d) <= Len(dir) /\ SubSeq(dir, 1, Len(d)) = d

\* process_csv_file reaches another row with the same product name while the
\* files are as they were; a listing may enumerate in another order
CallAgain ==
    /\ pc = "find_returned"
    /\ previous.calls = 0
    /\ previous' = [calls |-> 1, emptied |-> FALSE,
                    result |-> {found_files[i] : i \in DOMAIN found_files}]
    /\ children' \in Relisted(children)
    /\ pc' = "find_call"
    /\ UNCHANGED <<configVars, case_sensitive, unlistable, inaccessible, csv_rows, files,
                   stats, searchVars, runVars, rowVars>>

\* the same call once every failing directory has become an empty directory
\* that can be read
CallEmptied ==
    /\ pc = "find_returned"
    /\ previous.calls = 0
    /\ Failing # {}
    /\ previous' = [calls |-> 1, emptied |-> TRUE,
                    result |-> {found_files[i] : i \in DOMAIN found_files}]
    /\ children' = [d \in DOMAIN children |-> IF InFailing(d) THEN <<>> ELSE children[d]]
    /\ files' = {f \in files : ~InFailing(f.dir)}
    /\ unlistable' = {}
    /\ inaccessible' = {}
    /\ pc' = "find_call"
    /\ UNCHANGED <<configVars, case_sensitive, csv_rows, stats, searchVars, runVars, rowVars>>

NextCalls ==
    \/ NextSearch
    \/ CallAgain
    \/ CallEmptied

----------------------------------------------------------------------------
(* run, process_csv_file, process_row *)

Snapshot == [stats |-> stats, children |-> children, files |-> files]

\* the ways in which a row that passed validation ends
Endings == {"not_found", "dest_error", "placed"}

NoneEnded == [e \in Endings |-> 0]

\* the tally after a row ended
Tally(how) == IF how \in Endings THEN [ended EXCEPT ![how] = @ + 1] ELSE ended

\* a row whose exception is not caught by process_csv_file: it ends the run
RowEndsRun(how) ==
    /\ outcome' = how
    /\ ended' = Tally(how)
    /\ pc' = IF how = "raised" THEN "aborted" ELSE "rows"
    /\ row' = NoRow
    /\ quantity' = 0
    /\ dest_folder' = <<>>
    /\ file_idx' = 0
    /\ ordinal' = 0
    /\ copied_count' = 0
    /\ before' = NoSnapshot
    /\ product_name' = <<>>
    /\ source_idx' = 1
    /\ found_files' = <<>>
    /\ dirs_to_search' = <<>>
    /\ searched_count' = 0
    /\ dequeued' = 0
    /\ examined' = <<>>
    /\ listings' = 0

\* the statements that end the processing of a row: the locals go out of scope
RowEnd(how) ==
    /\ outcome' = how
    /\ ended' = Tally(how)
    /\ pc' = "rows"
    /\ row' = NoRow
    /\ quantity' = 0
    /\ dest_folder' = <<>>
    /\ file_idx' = 0
    /\ ordinal' = 0
    /\ copied_count' = 0
    /\ before' = NoSnapshot
    /\ product_name' = <<>>
    /\ source_idx' = 1
    /\ found_files' = <<>>
    /\ dirs_to_search' = <<>>
    /\ searched_count' = 0
    /\ dequeued' = 0
    /\ examined' = <<>>
    /\ listings' = 0

\* validate_paths, one source path: it must exist; exists() of an inaccessible
\* path raises unless its own entry can still be read (stat_ok); a listing
\* that raises gives a warning only
SourceValid(path, stat_ok) ==
    /\ path \in DOMAIN children
    /\ path \in inaccessible => stat_ok

\* validate_paths: every source path exists, the CSV directory exists, the
\* destination base can be created
ValidatePaths ==
    /\ pc = "run"
    /\ \E csv_dir_exists \in BOOLEAN, mkdir_ok \in BOOLEAN, stat_ok \in BOOLEAN :
         IF /\ \A i \in DOMAIN source_paths : SourceValid(source_paths[i], stat_ok)
            /\ csv_dir_exists
            /\ mkdir_ok
         THEN /\ children' = Mkdir(children, destination_base)
              /\ pc' = "get_csv_files"
         ELSE /\ pc' = "aborted"
              /\ UNCHANGED children
    /\ UNCHANGED <<configVars, envVars, files, stats, searchVars, runVars, rowVars>>

\* get_csv_files; run returns False when there is none
GetCsvFiles ==
    /\ pc = "get_csv_files"
    /\ pc' = IF csv_files = <<>> THEN "aborted" ELSE "csv_file"
    /\ UNCHANGED <<configVars, envVars, fsVars, stats, searchVars, runVars, rowVars>>

\* run: the next CSV file is handed to process_csv_file
ProcessCsvFile ==
    /\ pc = "csv_file"
    /\ csv_files # <<>>
    /\ material' = Head(csv_files)
    /\ csv_files' = Tail(csv_files)
    /\ pc' = "rows"
    /\ UNCHANGED <<configVars, envVars, fsVars, stats, searchVars, rows_read, rowVars>>

\* run: no CSV file is left, print_summary
PrintSummary ==
    /\ pc = "csv_file"
    /\ csv_files = <<>>
    /\ pc' = "done"
    /\ UNCHANGED <<configVars, envVars, fsVars, stats, searchVars, runVars, rowVars>>

\* process_csv_file: the loop over csv_data reaches its next row
ReadRow ==
    /\ pc = "rows"
    /\ rows_read < MaxRows
    /\ \E r \in csv_rows : row' = r
    /\ rows_read' = rows_read + 1
    /\ before' = Snapshot
    /\ pc' = "process_row"
    /\ UNCHANGED <<configVars, envVars, fsVars, stats, searchVars, csv_files, material,
                   quantity, dest_folder, file_idx, ordinal, copied_count, outcome, ended>>

\* process_csv_file: the loop over csv_data ends
EndCsvFile ==
    /\ pc = "rows"
    /\ material' = <<>>
    /\ pc' = "csv_file"
    /\ UNCHANGED <<configVars, envVars, fsVars, stats, searchVars, csv_files, rows_read, rowVars>>

\* a quantity test that lets 0 through
QuantityNegative(qty) == qty < 0

\* if quantity < 1: return
QuantityTooSmall(qty) == qty < 1

\* the row is left before anything is counted
RowSkipped(r) ==
    \/ Strip(r.product) = <<>>
    \/ Strip(r.thickness) = <<>>
    \/ RowQuantity(r).kind = "ValueError"
    \/ /\ RowQuantity(r).kind = "ok"
       /\ QuantityTooSmall(RowQuantity(r).value)

\* the parsing of the quantity raises an exception that "except ValueError"
\* does not catch
RowRaises(r) ==
    /\ Strip(r.product) # <<>>
    /\ Strip(r.thickness) # <<>>
    /\ RowQuantity(r).kind = "OverflowError"

\* counters that book a row twice
ProcessedTwice(st) == [st EXCEPT !.files_processed = @ + 2]

\* self.stats['files_processed'] += 1
ProcessedStats(st) == [st EXCEPT !.files_processed = @ + 1]

\* process_row up to the call of find_source_files
ProcessRow ==
    /\ pc = "process_row"
    /\ IF RowSkipped(row)
       THEN /\ RowEnd("skipped")
            /\ UNCHANGED stats
       ELSE IF RowRaises(row)
       THEN \* caught by process_csv_file
            /\ RowEnd("raised")
            /\ stats' = [stats EXCEPT !.errors = @ + 1]
       ELSE /\ stats' = ProcessedStats(stats)
            /\ product_name' = Strip(row.product)
            /\ quantity' = RowQuantity(row).value
            /\ pc' = "find_call"
            /\ UNCHANGED <<row, dest_folder, file_idx, ordinal, copied_count, before,
                           outcome, ended, source_idx, found_files, dirs_to_search, searched_count,
                           dequeued, examined, listings>>
    /\ UNCHANGED <<configVars, envVars, fsVars, runVars>>

\* counters that book a search that found nothing as an error as well
NotFoundAsError(st) == [st EXCEPT !.files_not_found = @ + 1, !.errors = @ + 1]

\* the counters after a search that found nothing
NotFoundStats(st) == [st EXCEPT !.files_not_found = @ + 1]

\* process_row: if not source_files
NotFound ==
    /\ pc = "find_returned"
    /\ found_files = <<>>
    /\ stats' = NotFoundStats(stats)
    /\ RowEnd("not_found")
    /\ UNCHANGED <<configVars, envVars, fsVars, runVars>>

\* counters that leave a failed creation of the destination folder uncounted
DestErrorUncounted(st) == st

\* the counters after create_destination_folder raised
DestErrorStats(st) == [st EXCEPT !.errors = @ + 1]

\* process_row: create_destination_folder, which may raise; the exception is
\* counted and ends the row
CreateDestinationFolder ==
    /\ pc = "find_returned"
    /\ found_files # <<>>
    /\ \E mkdir_ok \in BOOLEAN :
         IF mkdir_ok
         THEN /\ dest_folder' = DestFolder(destination_base, material, Strip(row.thickness))
              /\ children' = Mkdir(children, dest_folder')
              /\ file_idx' = 1
              /\ ordinal' = 1
              /\ copied_count' = 0
              /\ pc' = "copy"
              /\ UNCHANGED <<stats, row, quantity, before, outcome, ended, searchVars>>
         ELSE /\ stats' = DestErrorStats(stats)
              /\ RowEnd("dest_error")
              /\ UNCHANGED children
    /\ UNCHANGED <<configVars, envVars, files, runVars>>

\* copy_files_based_on_quantity: one call of shutil.copy2, which may raise
CopyStep ==
    /\ pc = "copy"
    /\ file_idx <= Len(found_files)
    /\ LET source_file == found_files[file_idx]
           dest_file == DestFile(dest_folder, source_file.name, quantity, ordinal)
       IN \E copy_ok \in (IF dest_file = source_file THEN {FALSE} ELSE BOOLEAN) :
            IF copy_ok
            THEN /\ files' = files \cup {dest_file}
                 /\ copied_count' = copied_count + 1
                 /\ file_idx' = AfterCopy(file_idx, ordinal, quantity).file_idx
                 /\ ordinal' = AfterCopy(file_idx, ordinal, quantity).ordinal
                 /\ UNCHANGED stats
            ELSE /\ stats' = [stats EXCEPT !.errors = @ + 1]
                 /\ file_idx' = AfterFailedCopy(file_idx, ordinal, quantity).file_idx
                 /\ ordinal' = AfterFailedCopy(file_idx, ordinal, quantity).ordinal
                 /\ UNCHANGED <<files, copied_count>>
    /\ UNCHANGED <<configVars, envVars, children, pc, searchVars, runVars, row, quantity,
                   dest_folder, before, outcome, ended>>

\* counters that book one copy per plan, whatever the count
CopiedOnce(st, count) == [st EXCEPT !.files_copied = @ + 1]

\* the counters after copy_files_based_on_quantity returned count
CopiedStats(st, count) == [st EXCEPT !.files_copied = @ + count]

\* copy_files_based_on_quantity returns; process_row adds copied_count
CopyReturn ==
    /\ pc = "copy"
    /\ file_idx > Len(found_files)
    /\ stats' = CopiedStats(stats, copied_count)
    /\ RowEnd("placed")
    /\ UNCHANGED <<configVars, envVars, fsVars, runVars>>

Next ==
    \/ ValidatePaths
    \/ GetCsvFiles
    \/ ProcessCsvFile
    \/ PrintSummary
    \/ ReadRow
    \/ EndCsvFile
    \/ ProcessRow
    \/ FindCall
    \/ RootExactPass
    \/ BfsStep
    \/ BfsEnd
    \/ PartialPass
    \/ FindReturn
    \/ NotFound
    \/ CreateDestinationFolder
    \/ CopyStep
    \/ CopyReturn

----------------------------------------------------------------------------
(* create_destination_folder called on its own *)

ThicknessChars == {"1", ".", "m"}

RECURSIVE StringsUpTo(_, _)
\* the strings of at most n characters of chars
StringsUpTo(chars, n) ==
    IF n = 0 THEN {<<>>}
    ELSE StringsUpTo(chars, n - 1)
            \cup {Append(t, c) : t \in StringsUpTo(chars, n - 1), c \in chars}

\* the thickness strings of the calls: every short string, and the examples
Thicknesses ==
    StringsUpTo(ThicknessChars, MaxThickness)
        \cup { <<"1",".","5","m","m">>, <<"1",".","5",".","2">>, <<"a","b","c">>,
               <<"2","m","m">>, <<"2",".","0">> }

\* create_destination_folder(material, thickness): the folder is returned, or
\* the exception of mkdir is raised again
FolderCall ==
    /\ pc = "folder_call"
    /\ \E mat \in {MaterialS, MaterialT}, thickness \in Thicknesses, mkdir_ok \in BOOLEAN :
         /\ material' = mat
         /\ row' = [NoRow EXCEPT !.thickness = thickness]
         /\ IF mkdir_ok
            THEN /\ dest_folder' = DestFolder(destination_base, mat, thickness)
                 /\ children' = Mkdir(children, dest_folder')
                 /\ pc' = "folder_returned"
            ELSE /\ dest_folder' = <<>>
                 /\ pc' = "folder_raised"
                 /\ UNCHANGED children
    /\ UNCHANGED <<configVars, envVars, files, stats, searchVars, csv_files, rows_read,
                   quantity, file_idx, ordinal, copied_count, before, outcome, ended>>

\* the call is remembered and another call follows
FolderAgain ==
    /\ pc \in {"folder_returned", "folder_raised"}
    /\ previous.calls = 0
    /\ previous' = [calls |-> 1, emptied |-> FALSE,
                    result |-> {[material |-> material, thickness |-> row.thickness,
                                 folder |-> dest_folder, returned |-> pc = "folder_returned"]}]
    /\ pc' = "folder_call"
    /\ UNCHANGED <<configVars, case_sensitive, unlistable, inaccessible, csv_rows, fsVars,
                   stats, searchVars, runVars, rowVars>>

NextFolder ==
    \/ FolderCall
    \/ FolderAgain

----------------------------------------------------------------------------
(* process_not_found_files.py: the recovery pass *)

dxf == <<"d","x","f">>

\* glob skips the entries whose name starts with a dot unless the pattern does
Hidden(name) == name # <<>> /\ name[1] = "."

\* the directories the pattern "**" of a recursive glob visits beneath root:
\* root and every directory reached from it through names that are not hidden
GlobDirs(root) ==
    {d \in DOMAIN children :
        /\ Under(root, d)
        /\ \A i \in (Len(root) + 1)..Len(d) : ~Hidden(d[i])}

\* glob.glob(os.path.join(source_str, "**", f"{product}.{ext}"), recursive=True)
ExactGlob(root, product, ext) ==
    {f \in files : f.dir \in GlobDirs(root) /\ SameName(f.name, ExactName(product, ext))}

\* glob.glob(os.path.join(source_str, "**", f"*{product}*.{ext}"), recursive=True)
PartialGlob(root, product, ext) ==
    {f \in files : f.dir \in GlobDirs(root) /\ ~Hidden(f.name) /\ GlobMatch(f.name, product, ext)}

\* the results find_dxf_file may return, one for every order in which the two
\* globs of a pass enumerate their matches: the exact pass over .dxf and .DXF,
\* and the partial pass when the exact pass found nothing
DxfResults(root, product) ==
    LET exact == {AppendNew(lower, upper) :
                    lower \in Orderings(ExactGlob(root, product, dxf)),
                    upper \in Orderings(ExactGlob(root, product, Upper(dxf)))}
        partial == {AppendNew(lower, upper) :
                    lower \in Orderings(PartialGlob(root, product, dxf)),
                    upper \in Orderings(PartialGlob(root, product, Upper(dxf)))}
    IN IF exact # {<<>>} THEN exact ELSE partial

\* process_product returns: the loop of run goes on with the next product
ProductEnd(how) ==
    /\ outcome' = how
    /\ ended' = Tally(how)
    /\ pc' = "products"
    /\ row' = NoRow
    /\ quantity' = 0
    /\ dest_folder' = <<>>
    /\ file_idx' = 0
    /\ ordinal' = 0
    /\ copied_count' = 0
    /\ before' = NoSnapshot
    /\ product_name' = <<>>
    /\ found_files' = <<>>

\* run: the not-found file is missing or holds no product: return False
RecoveryRun ==
    /\ pc = "recovery_run"
    /\ \E listed \in BOOLEAN :
         pc' = IF listed /\ csv_rows # {} THEN "products" ELSE "aborted"
    /\ UNCHANGED <<configVars, envVars, fsVars, stats, searchVars, runVars, rowVars>>

\* process_product up to the call of find_dxf_file: the fields of the product,
\* int(product['Quantity']), files_processed += 1
ProcessProduct ==
    /\ pc = "products"
    /\ rows_read < MaxRows
    /\ \E p \in csv_rows, mat \in {MaterialS, MaterialT} :
         /\ row' = p
         /\ material' = mat
         /\ before' = Snapshot
         /\ stats' = [stats EXCEPT !.files_processed = @ + 1]
         /\ product_name' = p.product
         /\ quantity' = Num(p.quantity)
         /\ pc' = "find_dxf"
    /\ rows_read' = rows_read + 1
    /\ UNCHANGED <<configVars, envVars, fsVars, csv_files, source_idx, found_files,
                   dirs_to_search, searched_count, dequeued, examined, listings,
                   dest_folder, file_idx, ordinal, copied_count, outcome, ended>>

\* find_dxf_file: source_path = self.source_paths[0]
FindDxfFile ==
    /\ pc = "find_dxf"
    /\ found_files' \in DxfResults(source_paths[1], product_name)
    /\ pc' = "dxf_returned"
    /\ UNCHANGED <<configVars, envVars, fsVars, stats, product_name, source_idx,
                   dirs_to_search, searched_count, dequeued, examined, listings,
                   runVars, rowVars>>

\* process_product: if not source_files
ProductNotFound ==
    /\ pc = "dxf_returned"
    /\ found_files = <<>>
    /\ stats' = NotFoundStats(stats)
    /\ ProductEnd("not_found")
    /\ UNCHANGED <<configVars, envVars, fsVars, runVars, source_idx, dirs_to_search,
                   searched_count, dequeued, examined, listings>>

\* process_product: create_destination_folder, which may raise
ProductFolder ==
    /\ pc = "dxf_returned"
    /\ found_files # <<>>
    /\ \E mkdir_ok \in BOOLEAN :
         IF mkdir_ok
         THEN /\ dest_folder' = DestFolder(destination_base, material, row.thickness)
              /\ children' = Mkdir(children, dest_folder')
              /\ file_idx' = 1
              /\ ordinal' = 1
              /\ copied_count' = 0
              /\ pc' = "copy_product"
              /\ UNCHANGED <<stats, row, quantity, before, outcome, ended, product_name, found_files>>
         ELSE /\ stats' = DestErrorStats(stats)
              /\ ProductEnd("dest_error")
              /\ UNCHANGED children
    /\ UNCHANGED <<configVars, envVars, files, runVars, source_idx, dirs_to_search,
                   searched_count, dequeued, examined, listings>>

\* copy_files_with_quantity: one call of shutil.copy2, which may raise; with a
\* quantity below 1 the loop over range(1, quantity + 1) is empty and the next
\* source file comes next
ProductCopyStep ==
    /\ pc = "copy_product"
    /\ file_idx <= Len(found_files)
    /\ IF quantity < 1
       THEN /\ file_idx' = file_idx + 1
            /\ UNCHANGED <<files, copied_count, ordinal, stats>>
       ELSE LET source_file == found_files[file_idx]
                dest_file == DestFile(dest_folder, source_file.name, quantity, ordinal)
            IN \E copy_ok \in (IF dest_file = source_file THEN {FALSE} ELSE BOOLEAN) :
                 IF copy_ok
                 THEN /\ files' = files \cup {dest_file}
                      /\ copied_count' = copied_count + 1
                      /\ file_idx' = AfterCopy(file_idx, ordinal, quantity).file_idx
                      /\ ordinal' = AfterCopy(file_idx, ordinal, quantity).ordinal
                      /\ UNCHANGED stats
                 ELSE /\ stats' = [stats EXCEPT !.errors = @ + 1]
                      /\ file_idx' = AfterFailedCopy(file_idx, ordinal, quantity).file_idx
                      /\ ordinal' = AfterFailedCopy(file_idx, ordinal, quantity).ordinal
                      /\ UNCHANGED <<files, copied_count>>
    /\ UNCHANGED <<configVars, envVars, children, pc, searchVars, runVars, row, quantity,
                   dest_folder, before, outcome, ended>>

\* process_product: self.stats['files_copied'] += copied_count
ProductCopyReturn ==
    /\ pc = "copy_product"
    /\ file_idx > Len(found_files)
    /\ stats' = CopiedStats(stats, copied_count)
    /\ ProductEnd("placed")
    /\ UNCHANGED <<configVars, envVars, fsVars, runVars, source_idx, dirs_to_search,
                   searched_count, dequeued, examined, listings>>

\* run: the loop over the products ends: print_summary, return True
RecoverySummary ==
    /\ pc = "products"
    /\ pc' = "done"
    /\ UNCHANGED <<configVars, envVars, fsVars, stats, searchVars, runVars, rowVars>>

NextRecovery ==
    \/ RecoveryRun
    \/ ProcessProduct
    \/ FindDxfFile
    \/ ProductNotFound
    \/ ProductFolder
    \/ ProductCopyStep
    \/ ProductCopyReturn
    \/ RecoverySummary

NameH == <<".","h">>

\* the source trees and a hidden directory beneath root A
RecoveryChildren == AddDir(SourceChildren, Join(RootA, NameH))

RecoveryNames ==
    { <<"P",".","d","x","f">>, <<"P",".","D","X","F">>, <<"x","P","y",".","d","x","f">> }

RecoveryPlaces ==
    {FilePath(d, n) : d \in {RootA, Chain(RootA, 2), Join(RootA, NameH), RootB},
                      n \in RecoveryNames}

\* the products the not-found file may list: Quantity matches (\d+)
RecoveryProducts ==
    [product : {ProductP, ProductZ}, thickness : {<<"2","m","m">>},
     quantity : {IntToStr(n) : n \in {0, 1, MaxQuantity}}]

----------------------------------------------------------------------------
(* Specifications *)

InitFolder ==
    /\ source_paths = <<RootA>>
    /\ destination_base = DestBase
    /\ children = SourceChildren
    /\ files = {}
    /\ case_sensitive = TRUE
    /\ unlistable = {}
    /\ inaccessible = {}
    /\ csv_rows = Rows
    /\ previous = NoPrevious
    /\ stats = [files_processed |-> 0, files_copied |-> 0,
                files_not_found |-> 0, errors |-> 0]
    /\ pc = "folder_call"
    /\ product_name = <<>>
    /\ source_idx = 1
    /\ found_files = <<>>
    /\ dirs_to_search = <<>>
    /\ searched_count = 0
    /\ dequeued = 0
    /\ examined = <<>>
    /\ listings = 0
    /\ csv_files = <<>>
    /\ material = <<>>
    /\ rows_read = 0
    /\ row = NoRow
    /\ quantity = 0
    /\ dest_folder = <<>>
    /\ file_idx = 0
    /\ ordinal = 0
    /\ copied_count = 0
    /\ before = NoSnapshot
    /\ outcome = "none"
    /\ ended = NoneEnded

SpecFolder == InitFolder /\ [][NextFolder]_vars

InitSearch ==
    /\ source_paths \in SourceOrders
    /\ destination_base = DestBase
    /\ children = SourceChildren
    /\ files \in SubsetsUpTo(SourcePlaces, MaxFiles)
    /\ stats = [files_processed |-> 0, files_copied |-> 0,
                files_not_found |-> 0, errors |-> 0]
    /\ pc = "find_call"
    /\ product_name = ProductP
    /\ source_idx = 1
    /\ found_files = <<>>
    /\ dirs_to_search = <<>>
    /\ searched_count = 0
    /\ dequeued = 0
    /\ examined = <<>>
    /\ listings = 0
    /\ csv_files = <<>>
    /\ material = <<>>
    /\ rows_read = 0
    /\ row = NoRow
    /\ quantity = 0
    /\ dest_folder = <<>>
    /\ file_idx = 0
    /\ ordinal = 0
    /\ copied_count = 0
    /\ before = NoSnapshot
    /\ outcome = "none"
    /\ ended = NoneEnded
    /\ case_sensitive = TRUE
    /\ unlistable = {}
    /\ inaccessible = {}
    /\ csv_rows = Rows
    /\ previous = NoPrevious

SpecSearch == InitSearch /\ [][NextSearch]_vars

\* the places of the files in the trees of a repeated call
CallPlaces ==
    {FilePath(d, n) : d \in {RootA, Join(RootA, NameC), Join(RootA, NameS), RootB},
                      n \in {<<"P",".","d","x","f">>, <<"P",".","D","X","F">>,
                              <<"x","P","y",".","d","x","f">>}}

\* the failing directories of a repeated call: none, or one directory of root A
CallFaults ==
    {[unlistable |-> {}, inaccessible |-> {}]}
        \cup {[unlistable |-> {d}, inaccessible |-> {}] : d \in {RootA, Join(RootA, NameC)}}
        \cup {[unlistable |-> {}, inaccessible |-> {d}] : d \in {RootA, Join(RootA, NameC)}}

\* a directory holds no two files whose names the filesystem takes for one
DistinctNames(F, sensitive) ==
    \A f, g \in F : (f.dir = g.dir /\ Upper(f.name) = Upper(g.name)) => (sensitive \/ f = g)

InitCalls ==
    /\ source_paths \in SourceOrders
    /\ destination_base = DestBase
    /\ children = SourceChildren
    /\ files \in SubsetsUpTo(CallPlaces, MaxFiles)
    /\ case_sensitive \in BOOLEAN
    /\ DistinctNames(files, case_sensitive)
    /\ \E faults \in CallFaults :
          /\ unlistable = faults.unlistable
          /\ inaccessible = faults.inaccessible
    /\ csv_rows = Rows
    /\ previous = NoPrevious
    /\ stats = [files_processed |-> 0, files_copied |-> 0,
                files_not_found |-> 0, errors |-> 0]
    /\ pc = "find_call"
    /\ product_name = ProductP
    /\ source_idx = 1
    /\ found_files = <<>>
    /\ dirs_to_search = <<>>
    /\ searched_count = 0
    /\ dequeued = 0
    /\ examined = <<>>
    /\ listings = 0
    /\ csv_files = <<>>
    /\ material = <<>>
    /\ rows_read = 0
    /\ row = NoRow
    /\ quantity = 0
    /\ dest_folder = <<>>
    /\ file_idx = 0
    /\ ordinal = 0
    /\ copied_count = 0
    /\ before = NoSnapshot
    /\ outcome = "none"
    /\ ended = NoneEnded

SpecCalls == InitCalls /\ [][NextCalls]_vars

Init ==
    /\ source_paths = <<RootA, RootB>>
    /\ destination_base = DestBase
    /\ children = SourceChildren
    /\ files \in RunTrees
    /\ stats = [files_processed |-> 0, files_copied |-> 0,
                files_not_found |-> 0, errors |-> 0]
    /\ pc = "run"
    /\ product_name = <<>>
    /\ source_idx = 1
    /\ found_files = <<>>
    /\ dirs_to_search = <<>>
    /\ searched_count = 0
    /\ dequeued = 0
    /\ examined = <<>>
    /\ listings = 0
    /\ csv_files \in CsvLists
    /\ material = <<>>
    /\ rows_read = 0
    /\ row = NoRow
    /\ quantity = 0
    /\ dest_folder = <<>>
    /\ file_idx = 0
    /\ ordinal = 0
    /\ copied_count = 0
    /\ before = NoSnapshot
    /\ outcome = "none"
    /\ ended = NoneEnded
    /\ case_sensitive = TRUE
    /\ unlistable = {}
    /\ inaccessible = {}
    /\ csv_rows = Rows
    /\ previous = NoPrevious

Spec == Init /\ [][Next]_vars

\* a configured source path that does not exist
RootM == << <<"M">> >>

FaultyOrders == { <<RootA>>, <<RootA, RootB>>, <<RootA, RootM>> }

FaultyTrees ==
    { {FilePath(RootA, <<"P",".","d","x","f">>)},
      {FilePath(RootB, <<"P",".","d","x","f">>)},
      {FilePath(Join(RootA, NameC), <<"P",".","d","x","f">>),
       FilePath(RootB, <<"x","P","y",".","d","x","f">>)} }

\* the failing directories of a run: none, or root A
FaultyRoots ==
    { [unlistable |-> {}, inaccessible |-> {}],
      [unlistable |-> {RootA}, inaccessible |-> {}],
      [unlistable |-> {}, inaccessible |-> {RootA}] }

\* rows of a run with failures: found, not found, skipped, malformed quantity
FaultyRows ==
    { [product |-> ProductP, thickness |-> <<"2","m","m">>, quantity |-> <<"1">>],
      [product |-> ProductP, thickness |-> <<"2","m","m">>, quantity |-> IntToStr(MaxQuantity)],
      [product |-> ProductZ, thickness |-> <<"2","m","m">>, quantity |-> <<"1">>],
      [product |-> ProductP, thickness |-> <<>>, quantity |-> <<"1">>],
      [product |-> ProductP, thickness |-> <<"2","m","m">>, quantity |-> <<"i","n","f">>] }

\* a run in an environment in which a source path may be missing and root A
\* may fail
InitFaulty ==
    /\ source_paths \in FaultyOrders
    /\ destination_base = DestBase
    /\ children = SourceChildren
    /\ files \in FaultyTrees
    /\ case_sensitive = TRUE
    /\ \E faults \in FaultyRoots :
          /\ unlistable = faults.unlistable
          /\ inaccessible = faults.inaccessible
    /\ csv_rows = FaultyRows
    /\ previous = NoPrevious
    /\ stats = [files_processed |-> 0, files_copied |-> 0,
                files_not_found |-> 0, errors |-> 0]
    /\ pc = "run"
    /\ product_name = <<>>
    /\ source_idx = 1
    /\ found_files = <<>>
    /\ dirs_to_search = <<>>
    /\ searched_count = 0
    /\ dequeued = 0
    /\ examined = <<>>
    /\ listings = 0
    /\ csv_files \in CsvLists
    /\ material = <<>>
    /\ rows_read = 0
    /\ row = NoRow
    /\ quantity = 0
    /\ dest_folder = <<>>
    /\ file_idx = 0
    /\ ordinal = 0
    /\ copied_count = 0
    /\ before = NoSnapshot
    /\ outcome = "none"
    /\ ended = NoneEnded

\* a cyclic directory graph: root A holds three entries that lead back to A,
\* so every path A/x/y/... is a directory; the listings are given as far as
\* max_depth - 1 levels beneath the root, the deepest level the pass dequeues
\* a directory of
LoopNames == <<NameC, NameS, <<"l">>>>

LoopDirs == {RootA \o p : p \in StringsUpTo({LoopNames[i] : i \in DOMAIN LoopNames}, max_depth - 1)}

LoopChildren == [d \in LoopDirs |-> LoopNames]

LoopTrees ==
    { {},
      {FilePath(Chain(RootA, max_depth - 1), <<"P",".","d","x","f">>)},
      {FilePath(Chain(RootA, max_depth), <<"P",".","d","x","f">>)},
      {FilePath(Join(RootA, NameS), <<"x","P","y",".","d","x","f">>)} }

\* one search in the cyclic graph
InitLoop ==
    /\ source_paths \in {<<RootA>>, <<RootA, RootB>>}
    /\ destination_base = DestBase
    /\ children = LoopChildren
    /\ files \in LoopTrees
    /\ case_sensitive = TRUE
    /\ unlistable = {}
    /\ inaccessible = {}
    /\ csv_rows = Rows
    /\ previous = NoPrevious
    /\ stats = [files_processed |-> 0, files_copied |-> 0,
                files_not_found |-> 0, errors |-> 0]
    /\ pc = "find_call"
    /\ product_name = ProductP
    /\ source_idx = 1
    /\ found_files = <<>>
    /\ dirs_to_search = <<>>
    /\ searched_count = 0
    /\ dequeued = 0
    /\ examined = <<>>
    /\ listings = 0
    /\ csv_files = <<>>
    /\ material = <<>>
    /\ rows_read = 0
    /\ row = NoRow
    /\ quantity = 0
    /\ dest_folder = <<>>
    /\ file_idx = 0
    /\ ordinal = 0
    /\ copied_count = 0
    /\ before = NoSnapshot
    /\ outcome = "none"
    /\ ended = NoneEnded

\* the call is sequential code: a step that can be taken is taken
SpecLoop == InitLoop /\ [][NextSearch]_vars /\ WF_vars(NextSearch)

\* the destination base lies beneath source root A, as the shipped
\* DESTINATION_BASE lies beneath the third of the SOURCE_PATHS
NestedBase == Join(RootA, <<"D">>)

NestedOrders == { <<RootA>>, <<RootB, RootA>> }

NestedTrees ==
    { {FilePath(RootA, <<"P",".","d","x","f">>)},
      {FilePath(Join(RootA, NameS), <<"P",".","d","x","f">>)},
      {FilePath(Join(RootB, NameC), <<"P",".","d","x","f">>)} }

NestedRows ==
    { [product |-> ProductP, thickness |-> <<"2","m","m">>, quantity |-> <<"1">>],
      [product |-> ProductP, thickness |-> <<"2","m","m">>, quantity |-> IntToStr(MaxQuantity)],
      [product |-> ProductZ, thickness |-> <<"2","m","m">>, quantity |-> <<"1">>] }

\* a run whose destination base lies beneath a source root
InitNested ==
    /\ source_paths \in NestedOrders
    /\ destination_base = NestedBase
    /\ children = SourceChildren
    /\ files \in NestedTrees
    /\ case_sensitive = TRUE
    /\ unlistable = {}
    /\ inaccessible = {}
    /\ csv_rows = NestedRows
    /\ previous = NoPrevious
    /\ stats = [files_processed |-> 0, files_copied |-> 0,
                files_not_found |-> 0, errors |-> 0]
    /\ pc = "run"
    /\ product_name = <<>>
    /\ source_idx = 1
    /\ found_files = <<>>
    /\ dirs_to_search = <<>>
    /\ searched_count = 0
    /\ dequeued = 0
    /\ examined = <<>>
    /\ listings = 0
    /\ csv_files \in CsvLists
    /\ material = <<>>
    /\ rows_read = 0
    /\ row = NoRow
    /\ quantity = 0
    /\ dest_folder = <<>>
    /\ file_idx = 0
    /\ ordinal = 0
    /\ copied_count = 0
    /\ before = NoSnapshot
    /\ outcome = "none"
    /\ ended = NoneEnded

SpecNested == InitNested /\ [][Next]_vars

InitRecovery ==
    /\ source_paths \in {<<RootA, RootB>>, <<RootB, RootA>>}
    /\ destination_base = DestBase
    /\ children = RecoveryChildren
    /\ files \in SubsetsUpTo(RecoveryPlaces, MaxFiles)
    /\ stats = [files_processed |-> 0, files_copied |-> 0,
                files_not_found |-> 0, errors |-> 0]
    /\ pc = "recovery_run"
    /\ product_name = <<>>
    /\ source_idx = 1
    /\ found_files = <<>>
    /\ dirs_to_search = <<>>
    /\ searched_count = 0
    /\ dequeued = 0
    /\ examined = <<>>
    /\ listings = 0
    /\ csv_files = <<>>
    /\ material = <<>>
    /\ rows_read = 0
    /\ row = NoRow
    /\ quantity = 0
    /\ dest_folder = <<>>
    /\ file_idx = 0
    /\ ordinal = 0
    /\ copied_count = 0
    /\ before = NoSnapshot
    /\ outcome = "none"
    /\ ended = NoneEnded
    /\ case_sensitive = TRUE
    /\ unlistable = {}
    /\ inaccessible = {}
    /\ csv_rows \in {{}, RecoveryProducts}
    /\ previous = NoPrevious

SpecRecovery == InitRecovery /\ [][NextRecovery]_vars

\* run is one sequential call: a step that can be taken is taken
SpecFaulty == InitFaulty /\ [][Next]_vars /\ WF_vars(Next)

----------------------------------------------------------------------------
(* Properties of find_source_files *)

\* the positions in source_paths of the roots a file lies under
RootsOf(f) == {i \in DOMAIN source_paths : Under(source_paths[i], f.dir)}

\* the name of f is exactly <identifier>.<ext>, ext a listed extension in
\* lower or upper case
ExactNamed(f) ==
    \E e \in DOMAIN extensions :
        \/ f.name = ExactName(product_name, extensions[e])
        \/ f.name = ExactName(product_name, Upper(extensions[e]))

\* the exact-name files of the identifier
ExactFiles == {f \in files : ExactNamed(f)}

\* the files the partial-name fallback matches in a directory
PartialFilesIn(dir) ==
    {f \in files : /\ f.dir = dir
                   /\ \E e \in DOMAIN extensions :
                         \/ GlobMatch(f.name, product_name, extensions[e])
                         \/ GlobMatch(f.name, product_name, Upper(extensions[e]))}

\* the partial-name fallback has something to return in the root at position i
PartialIn(i) ==
    \/ PartialFilesIn(source_paths[i]) # {}
    \/ \E j \in DOMAIN SubDirs(source_paths[i]) :
           PartialFilesIn(SubDirs(source_paths[i])[j]) # {}

Returned == pc = "find_returned"

ResultSet == {found_files[i] : i \in DOMAIN found_files}

\* a directory in which the exact pass finds a file
HasExact(dir) == ExactMatches(dir, product_name, <<>>) # <<>>

\* the only exact-name file of the identifier, f, lies d levels beneath the
\* source root at position r
OnlyExactAt(f, r, d) ==
    /\ Len(f.dir) - Len(source_paths[r]) = d
    /\ RootsOf(f) = {r}
    /\ ExactFiles = {f}

\* C1 (as claimed): the files find_source_files returns never lie under two
\* different source roots; when the identifier matches under roots A and B only
\* files of the earlier root are returned.
C1_FirstRootWins ==
    Returned => \A f, g \in ResultSet : RootsOf(f) = RootsOf(g)

\* C2 (as claimed): once the breadth-first pass has examined a directory holding
\* an exact-name match it examines no further directory, and the result holds
\* the matches of one directory only.
C2_FirstDepthLevelWins ==
    /\ \A i \in DOMAIN examined : HasExact(examined[i]) => i = Len(examined)
    /\ Returned /\ examined # <<>> => \A f, g \in ResultSet : f.dir = g.dir

\* C3 (as claimed): an identifier whose only exact-name file lies d levels
\* beneath the source root is returned whenever d <= max_depth, and the result
\* is empty whenever d > max_depth.
C3_DepthBoundAsClaimed ==
    Returned =>
        \A f \in files : \A d \in 0..(MaxChain + 1) :
            OnlyExactAt(f, 1, d) /\ files = {f} =>
                /\ d <= max_depth => found_files = <<f>>
                /\ d > max_depth => found_files = <<>>

\* C3 (amended): an identifier whose only exact-name file lies d levels beneath
\* a source root is returned, alone, whenever d <= max_depth - 1 and no earlier
\* root has a partial-name match; whenever d >= max_depth the file is not
\* returned, and the result is empty unless the partial-name fallback matches.
C3_DepthBound ==
    Returned /\ Cardinality(ExactFiles) = 1 =>
        \A f \in ExactFiles : \A r \in RootsOf(f) : \A d \in 0..(MaxChain + 1) :
            OnlyExactAt(f, r, d) =>
                /\ (d <= max_depth - 1 /\ \A i \in 1..(r - 1) : ~PartialIn(i))
                        => found_files = <<f>>
                /\ d >= max_depth => f \notin ResultSet
                /\ (d >= max_depth /\ \A i \in DOMAIN source_paths : ~PartialIn(i))
                        => found_files = <<>>

\* the deepest directory that is searched holds the only exact-name file and
\* the call has returned it
C3_Witness ==
    /\ Returned
    /\ \E f \in files : OnlyExactAt(f, 1, max_depth - 1) /\ found_files = <<f>>

\* an exact-name file of the identifier lies in the root directory of the
\* source root at position i
RootLevelExact(i) == \E f \in files : f.dir = source_paths[i] /\ ExactNamed(f)

----------------------------------------------------------------------------
(* Properties of copy_files_based_on_quantity and process_row *)

\* the loop over the source files has ended
CopyLoopDone == pc = "copy" /\ file_idx > Len(found_files)

\* no copy of the current row has failed
NoCopyFailed == CopyLoopDone /\ stats.errors = before.stats.errors

\* the ordinals of the copies of one source file
Ordinals(qty) == IF qty = 1 THEN {1} ELSE 1..qty

\* the destination paths of the plan of the current row: one per pair
\* (position in source_files, ordinal)
PlanDestinations ==
    {DestFile(dest_folder, found_files[j].name, quantity, i) :
        j \in DOMAIN found_files, i \in Ordinals(quantity)}

\* C4 (as claimed): when every copy of a plan has succeeded, the plan has
\* left quantity * len(files) distinct destination files (len(files) for
\* quantity 1): no two pairs (source file, ordinal) share a destination path.
C4_QuantityLaw ==
    NoCopyFailed =>
        /\ PlanDestinations \subseteq files
        /\ Cardinality(PlanDestinations) = quantity * Len(found_files)

\* C5 (as claimed): a copy that fails is counted in stats['errors'] and the
\* loop goes on exactly as after a copy that succeeds, so the remaining
\* ordinals of the same source file are attempted as well.
C5_BestEffortCopy ==
    [][(pc = "copy" /\ file_idx <= Len(found_files) /\ stats'.errors # stats.errors) =>
          /\ stats'.errors = stats.errors + 1
          /\ file_idx' = AfterCopy(file_idx, ordinal, quantity).file_idx
          /\ ordinal' = AfterCopy(file_idx, ordinal, quantity).ordinal]_vars

\* the quantity of a row parses to a number below 1 (an empty quantity is 0)
QuantityBelowOne(r) ==
    \/ Strip(r.quantity) = <<>>
    \/ /\ ParseFloat(r.quantity).kind = "finite"
       /\ TruncFloat(ParseFloat(r.quantity)) < 1

\* the quantity of a row is text that does not denote a finite number
QuantityMalformed(r) ==
    /\ Strip(r.quantity) # <<>>
    /\ ParseFloat(r.quantity).kind # "finite"

\* process_row leaves the counters and the filesystem as they are and calls
\* nothing: the next step reads the next row
RowIsNoOp ==
    /\ stats' = stats
    /\ children' = children
    /\ files' = files
    /\ pc' = "rows"

\* C6: a row whose quantity parses to a value below 1, or whose product name
\* or thickness is empty, is a no-op of process_row: no search, no destination
\* directory or file, no counter changed.
C6_InvalidRowIsNoOp ==
    [][(/\ pc = "process_row"
        /\ \/ Strip(row.product) = <<>>
           \/ Strip(row.thickness) = <<>>
           \/ QuantityBelowOne(row))
        => RowIsNoOp]_vars

\* a row has been skipped after an earlier row had files copied
C6_Witness ==
    /\ outcome = "skipped"
    /\ rows_read = 2
    /\ stats.files_copied > 0

\* C7 (as claimed): a row whose quantity is malformed is skipped without any
\* counter being incremented, whatever exception the parsing raises.
C7_MalformedQuantitySkipped ==
    [][(/\ pc = "process_row"
        /\ Strip(row.product) # <<>>
        /\ Strip(row.thickness) # <<>>
        /\ QuantityMalformed(row))
        => RowIsNoOp]_vars

\* C8: when the search of a valid row returns nothing, process_row has
\* incremented files_not_found by exactly 1, left files_copied and errors
\* unchanged and created no destination directory and no file.
C8_NotFoundOutcome ==
    [][(pc = "find_returned" /\ found_files = <<>>) =>
          /\ stats'.files_not_found = before.stats.files_not_found + 1
          /\ stats'.files_copied = before.stats.files_copied
          /\ stats'.errors = before.stats.errors
          /\ children' = before.children
          /\ files' = before.files]_vars

\* a row has ended not found after an earlier row had files copied
C8_Witness ==
    /\ outcome = "not_found"
    /\ stats.files_not_found = 1
    /\ stats.files_copied > 0

\* the destination directory of the current row, as the claim names it
ClaimedFolder == <<destination_base[1], material, CleanThickness(Strip(row.thickness))>>

\* the name of copy i of a source file, as the claim names it
ClaimedName(name, i) ==
    IF quantity = 1 THEN name ELSE IntToStr(i) \o <<"_">> \o name

\* C9: when a valid row with quantity N finds k files and every copy
\* succeeds, process_row has increased files_processed by 1 and files_copied by
\* N * k, and the copies lie under <destination_base>/<material>/<normalized
\* thickness>; P / S / 2mm / 3 with one root-level P.dxf gives
\* S/2/1_P.dxf .. S/2/3_P.dxf, copied = 3, processed = 1.
C9_PlacementAccounting ==
    [][NoCopyFailed =>
          /\ stats'.files_processed = before.stats.files_processed + 1
          /\ stats'.files_copied = before.stats.files_copied + quantity * Len(found_files)
          /\ \A j \in DOMAIN found_files : \A i \in Ordinals(quantity) :
                FilePath(ClaimedFolder, ClaimedName(found_files[j].name, i)) \in files'
          /\ ( /\ row = [product |-> <<"P">>, thickness |-> <<"2","m","m">>,
                         quantity |-> <<"3">>]
               /\ material = <<"S">>
               /\ found_files = <<FilePath(RootA, <<"P",".","d","x","f">>)>>
               /\ before.stats.files_processed = 0
               /\ before.stats.files_copied = 0 )
             => /\ stats'.files_copied = 3
                /\ stats'.files_processed = 1
                /\ \A n \in { <<"1","_","P",".","d","x","f">>, <<"2","_","P",".","d","x","f">>,
                              <<"3","_","P",".","d","x","f">> } :
                      FilePath(<< <<"D">>, <<"S">>, <<"2">> >>, n) \in files']_vars

\* a row with quantity MaxQuantity has been placed without error: two source
\* files, 2 * MaxQuantity copies
C9_Witness ==
    /\ outcome = "placed"
    /\ stats = [files_processed |-> 1, files_copied |-> 2 * MaxQuantity,
                files_not_found |-> 0, errors |-> 0]
    /\ \E f \in files : f.dir = << <<"D">>, <<"S">>, <<"2">> >>
                        /\ f.name = IntToStr(MaxQuantity) \o <<"_","P",".","D","X","F">>

\* C16: when the creation of the destination directory of a row fails,
\* process_row has incremented errors by exactly 1 for the row and copied no
\* file for it, and the loop over the rows goes on with the next row.
C16_DestinationFailure ==
    [][/\ (pc = "find_returned" /\ found_files # <<>> /\ pc' # "copy") =>
             /\ stats'.errors = before.stats.errors + 1
             /\ stats'.files_copied = before.stats.files_copied
             /\ files' = before.files
             /\ pc' = "rows"
             /\ rows_read' = rows_read
       /\ (pc = "rows" /\ outcome = "dest_error" /\ rows_read < MaxRows) =>
             ENABLED ReadRow]_vars

\* the row after a row whose destination directory could not be created is
\* being processed
C16_Witness ==
    /\ outcome = "dest_error"
    /\ pc = "process_row"
    /\ rows_read = 2
    /\ stats = [files_processed |-> 1, files_copied |-> 0,
                files_not_found |-> 0, errors |-> 1]

----------------------------------------------------------------------------
(* Properties of repeated calls of find_source_files *)

\* C11 (as claimed): two calls for one identifier on the same files, which
\* differ only in the order in which the directory listings enumerate their
\* entries, return the same set of files.
C11_OrderIndependence ==
    (Returned /\ previous.calls = 1 /\ ~previous.emptied) => ResultSet = previous.result

\* the file of the tree that a returned path denotes
Denoted(path) == CHOOSE f \in files : f.dir = path.dir /\ SameName(f.name, path.name)

\* C12 (as claimed): the returned list never holds the same file twice, on a
\* filesystem that ignores case as on one that does not.
C12_NoDuplicates ==
    Returned =>
        \A i, j \in DOMAIN found_files :
            i # j => Denoted(found_files[i]) # Denoted(found_files[j])

----------------------------------------------------------------------------
(* Properties of create_destination_folder *)

FolderReturned == pc = "folder_returned"

\* the number of decimal points of a name
Points(name) == Cardinality({i \in DOMAIN name : name[i] = "."})

\* name holds a digit
HasDigit(name) == \E i \in DOMAIN name : name[i] \in Digits

\* the folder name that the returned path ends with, <<>> if the path has no
\* component for the thickness
FolderName ==
    IF Len(dest_folder) = Len(destination_base) + 2 THEN Last(dest_folder) ELSE <<>>

\* C13 (as claimed): the normalized folder name is "unknown" or consists of
\* digits and at most one decimal point, so it is never "1.5.2", "." or "..";
\* "1.5mm" gives "1.5".
C13_ThicknessNormalization ==
    FolderReturned =>
        /\ \/ FolderName = unknown
           \/ /\ \A i \in DOMAIN FolderName : FolderName[i] \in Digits \cup {"."}
              /\ Points(FolderName) <= 1
              /\ HasDigit(FolderName)
        /\ row.thickness = <<"1",".","5","m","m">> => FolderName = <<"1",".","5">>

\* C14 (as claimed): the folder name is "unknown" for every thickness without
\* a digit (also one whose only kept characters are decimal points), and the
\* kept characters otherwise.
C14_SentinelRule ==
    FolderReturned =>
        IF HasDigit(row.thickness)
        THEN FolderName = SelectSeq(row.thickness, LAMBDA c : c \in Digits \cup {"."})
        ELSE FolderName = unknown

\* C15 (as claimed): two calls with distinct (material, thickness) pairs
\* return distinct directories unless both thickness values normalize to
\* "unknown".
C15_CollisionFree ==
    FolderReturned =>
        \A e \in previous.result :
            (e.returned /\ <<e.material, e.thickness>> # <<material, row.thickness>>) =>
                \/ Resolve(e.folder) # Resolve(dest_folder)
                \/ /\ CleanThickness(e.thickness) = unknown
                   /\ CleanThickness(row.thickness) = unknown

\* the second call ran on the filesystem in which the failing directories of
\* the first call are empty
EmptiedCallReturned == Returned /\ previous.calls = 1 /\ previous.emptied

\* C17 (as claimed): every file that is found when the failing directory is
\* empty is found when the directory fails.
C17_FailureAsEmptyAsClaimed ==
    EmptiedCallReturned => ResultSet \subseteq previous.result

\* C17 (amended): every file that is found when the failing directory is empty
\* is found when the directory fails, provided the search with the failure
\* returns no file of the failing directory itself.
C17_FailureAsEmpty ==
    (EmptiedCallReturned /\ \A f \in previous.result : IsFile(f)) =>
        ResultSet \subseteq previous.result

\* a search went through root A, which holds the failing directory, and
\* returned a file of root B, which the search of the emptied directory
\* returns as well
C17_Witness ==
    /\ EmptiedCallReturned
    /\ source_paths = <<RootA, RootB>>
    /\ \E f \in ResultSet : f.dir = RootB
    /\ ResultSet = previous.result

----------------------------------------------------------------------------
(* Properties of a run in a failing environment *)

\* the positions inside find_source_files
SearchPcs == {"find_call", "find_root", "find_bfs", "find_partial", "find_return"}

SourceUnusable ==
    \E i \in DOMAIN source_paths :
        \/ source_paths[i] \notin DOMAIN children
        \/ source_paths[i] \in Failing

\* C19 (as claimed): when a source path is missing or cannot be listed, or the
\* destination base cannot be created, run returns before any row is
\* processed: no search has run, no file is copied, every counter is 0.
C19_ConfigErrorsFatal ==
    [][pc = "run" =>
          /\ (SourceUnusable \/ destination_base \notin DOMAIN children') => pc' = "aborted"
          /\ pc' = "aborted" =>
                /\ stats' = [files_processed |-> 0, files_copied |-> 0,
                             files_not_found |-> 0, errors |-> 0]
                /\ files' = files
                /\ listings' = 0]_vars

\* the run has ended with its summary
Summarized == pc = "done"

\* C20 (as claimed): whenever validate_paths succeeds, run reaches
\* print_summary.
C20_SummaryAfterValidation == (pc = "get_csv_files") ~> Summarized

\* C20 (amended): whenever validate_paths succeeds and get_csv_files returns
\* at least one file, run processes every file and reaches print_summary,
\* whatever fails on the way.
C20_SummaryAfterCsvFound == (pc = "csv_file") ~> (Summarized /\ csv_files = <<>>)

\* the run has printed its summary after a failing search, a row that raised
\* and a copy or folder error
C20_Witness ==
    /\ Summarized
    /\ Failing # {}
    /\ stats.errors > 0
    /\ stats.files_not_found > 0

----------------------------------------------------------------------------
(* Properties of a sequence of rows *)

\* C21 (as claimed): the files a search returns are files of the filesystem as
\* it was before any row was processed: no file that lies under the
\* destination base, where the copies of earlier rows are written, is
\* returned.
C21_RecordsIndependent ==
    Returned => \A f \in ResultSet : ~Under(destination_base, f.dir)

----------------------------------------------------------------------------
(* Properties of the strategies of find_source_files *)

\* C22: the breadth-first pass of a root runs only when the root-level exact
\* pass found nothing, the partial-name fallback lists a directory only when
\* the exact passes found nothing, and a result never holds a substring-only
\* match together with an exact-name match.
C22_StrictEscalation ==
    [][/\ (pc = "find_root" /\ pc' = "find_bfs") =>
             /\ found_files' = <<>>
             /\ ~HasExact(source_paths[source_idx])
       /\ (pc = "find_partial" /\ found_files # <<>>) =>
             /\ found_files' = found_files
             /\ listings' = listings
       /\ (pc = "find_partial" /\ listings' # listings) =>
             \A i \in DOMAIN examined : ~HasExact(examined[i])
       /\ pc' = "find_returned" =>
             \/ \A i \in DOMAIN found_files' : ExactNamed(found_files'[i])
             \/ \A i \in DOMAIN found_files' : ~ExactNamed(found_files'[i])]_vars

\* the breadth-first pass examined directories, found nothing, and the
\* fallback returned a substring-only match
C22_Witness ==
    /\ Returned
    /\ Len(examined) > 1
    /\ found_files # <<>>
    /\ \A i \in DOMAIN found_files : ~ExactNamed(found_files[i])

\* the directories the partial-name fallback is restricted to in the root at
\* position i: the root directory and its immediate children
FallbackDirs(i) ==
    {source_paths[i]} \cup {SubDirs(source_paths[i])[j] : j \in DOMAIN SubDirs(source_paths[i])}

\* C23 (as claimed): when no exact pass found anything, every file of the root
\* directory or of an immediate child of the root whose name contains the
\* identifier and ends in an allowed extension is returned, and no
\* substring-only match that lies deeper is returned.
C23_FallbackCoverage ==
    Returned =>
        /\ \A i \in DOMAIN source_paths :
              (ExactFiles = {} /\ \A j \in 1..(i - 1) : ~PartialIn(j)) =>
                  \A d \in FallbackDirs(i) : PartialFilesIn(d) \subseteq ResultSet
        /\ \A f \in ResultSet :
              ~ExactNamed(f) => \E i \in DOMAIN source_paths : f.dir \in FallbackDirs(i)

\* C24: in a cyclic directory graph of fan-out 3 the breadth-first pass
\* dequeues at most max_dirs directories per source root, examines no
\* directory more than max_depth - 1 levels beneath its root, and the call
\* returns.
C24_BoundedTraversal ==
    /\ [](/\ searched_count <= max_dirs
          /\ dequeued <= max_dirs * source_idx
          /\ \A i \in DOMAIN examined :
                \E r \in DOMAIN source_paths :
                    /\ Under(source_paths[r], examined[i])
                    /\ Len(examined[i]) - Len(source_paths[r]) <= max_depth - 1)
    /\ <>Returned

\* the cap has ended the loop of root A with directories left in the queue,
\* after a directory max_depth - 1 levels beneath the root was examined
C24_Witness ==
    /\ pc = "find_partial"
    /\ source_idx = 1
    /\ searched_count = max_dirs
    /\ dirs_to_search # <<>>
    /\ \E i \in DOMAIN examined : Len(examined[i]) - Len(RootA) = max_depth - 1

----------------------------------------------------------------------------
(* Properties of the counters *)

\* C25 (as claimed): files_processed is incremented only for a row whose
\* search has returned a file; a row that ends not found has incremented
\* files_not_found and left files_processed as it was when the row was read.
C25_ProcessedInPlaceOnly ==
    [][/\ stats'.files_processed # stats.files_processed =>
             (pc = "find_returned" /\ found_files # <<>>)
       /\ (pc = "find_returned" /\ found_files = <<>>) =>
             /\ stats'.files_not_found = before.stats.files_not_found + 1
             /\ stats'.files_processed = before.stats.files_processed]_vars

\* the quantity text is a decimal numeral (sign, digits, fraction, exponent),
\* not one of the words inf and nan: it denotes a finite number
Numeral(s) ==
    /\ \E i \in DOMAIN s : s[i] \in Digits
    /\ ParseFloat(s).kind \in {"finite", "inf"}

\* C26 (as claimed): for every quantity text that denotes a finite number
\* process_row uses the number without its fractional part: it raises nothing,
\* a value below 1 makes the row a no-op ("0.9", "-0.5"), and "<n>.0" and
\* "<n>.9" give n; the empty text is taken as 0.
C26_TruncationTowardZero ==
    [][(/\ pc = "process_row"
        /\ Strip(row.product) # <<>>
        /\ Strip(row.thickness) # <<>>) =>
          /\ Numeral(row.quantity) =>
                /\ stats'.errors = stats.errors
                /\ pc' = "find_call" \/ RowIsNoOp
          /\ (Numeral(row.quantity) /\ pc' = "find_call") =>
                quantity' = TruncFloat(ParseFloat(row.quantity))
          /\ row.quantity \in { <<>>, <<"0",".","9">>, <<"-","0",".","5">> } => RowIsNoOp
          /\ row.quantity \in { IntToStr(MaxQuantity) \o <<".","0">>,
                                IntToStr(MaxQuantity) \o <<".","9">> } =>
                pc' = "find_call" /\ quantity' = MaxQuantity]_vars

----------------------------------------------------------------------------
(* The recovery pass *)

\* process_product is at work on a product whose quantity is below 1
ZeroProduct == pc \in {"find_dxf", "dxf_returned", "copy_product"} /\ quantity < 1

\* C27: in the recovery pass a product whose quantity is below 1 is a no-op: no
\* step of process_product for it creates a directory or changes one of the
\* counters files_processed, files_not_found and errors
C27_RecoveryZeroIsNoOp ==
    [][(ZeroProduct \/ (pc = "products" /\ pc' = "find_dxf" /\ quantity' < 1)) =>
          /\ stats'.files_processed = stats.files_processed
          /\ stats'.files_not_found = stats.files_not_found
          /\ stats'.errors = stats.errors
          /\ DOMAIN children' = DOMAIN children]_vars

\* a file beneath the first source path whose name is the identifier and .dxf or .DXF
DxfExactNamed(f) ==
    \/ f.name = ExactName(product_name, dxf)
    \/ f.name = ExactName(product_name, Upper(dxf))

\* C28: find_dxf_file returns files beneath the first source path only, and
\* when a file named <identifier>.dxf or <identifier>.DXF exists anywhere
\* beneath that path it returns files of exactly these names only
C28_RecoveryPrecedence ==
    pc = "dxf_returned" =>
        /\ \A i \in DOMAIN found_files : Under(source_paths[1], found_files[i].dir)
        /\ (\E f \in files : Under(source_paths[1], f.dir) /\ DxfExactNamed(f)) =>
              \A i \in DOMAIN found_files : DxfExactNamed(found_files[i])

----------------------------------------------------------------------------
(* The counters of a run *)

\* process_row is at work on a row that passed validation
Validated == pc \in SearchPcs \cup {"find_returned", "copy"}

\* C29: every row that passed validation has incremented files_processed once
\* and ended in one of the three ways, so files_processed is the number of rows
\* not found plus the rows whose destination folder failed plus the rows
\* placed (plus the row at work, if any), files_not_found counts the rows not
\* found and never exceeds files_processed, and no counter ever decreases.
C29_ExactlyOnceAccounting ==
    /\ [](/\ stats.files_not_found = ended["not_found"]
          /\ stats.files_processed =
                stats.files_not_found + ended["dest_error"] + ended["placed"]
                    + (IF Validated THEN 1 ELSE 0)
          /\ stats.files_not_found <= stats.files_processed)
    /\ [][\A c \in DOMAIN stats : stats'[c] >= stats[c]]_vars

\* a run ended after a row that was placed and a row that was not found
C29_Witness ==
    /\ pc = "done"
    /\ stats.files_processed = 2
    /\ ended["placed"] = 1
    /\ ended["not_found"] = 1

\* the files of the destination tree
Placed == {f \in files : Under(destination_base, f.dir)}

\* C30: a copy for a row never writes a path that a copy for an earlier row of
\* the run wrote, so at the end of a run in which no error was counted
\* files_copied is the number of files of the destination tree
C30_NoOverwriteAcrossRecords ==
    /\ [][(pc = "copy" /\ copied_count' = copied_count + 1) =>
             DestFile(dest_folder, found_files[file_idx].name, quantity, ordinal)
                 \notin before.files]_vars
    /\ []((pc = "done" /\ stats.errors = 0) => stats.files_copied = Cardinality(Placed))

====
